---------------------------- MODULE Spec2Model ----------------------------
(***************************************************************************)
(* Model of harness/command_handler/fetch.py: the Fetcher.fetch pipeline   *)
(* (parse the resource, connect, capture the peer certificate, send the    *)
(* request, classify the status, parse the body, cross-check the           *)
(* thumbprint with the openssl CLI), the FetchCommandHandler in front of   *)
(* it, and the construction of the Fetcher (keychain_PEM and the TLS       *)
(* context).                                                               *)
(*                                                                         *)
(* Python values are tagged records: None, PyInt(n), PyStr(s), PyList(l). *)
(* A Python dict is a TLA+ function whose DOMAIN is the dict's key set.    *)
(* Bytes and text are sequences of byte values and of code points.  An     *)
(* exception that leaves a function is the record Raise(type).             *)
(***************************************************************************)
EXTENDS Integers, Sequences, FiniteSets, TLC

\* Bound of the model: the longest response body enumerated byte by byte.
MaxBodyLen == 2

\* Bound of the model: the number of handler invocations (call frames).
NumCalls == 2

Calls == 1 .. NumCalls

----------------------------------------------------------------------------
(* Python values *)

None == [t |-> "None"]

PyInt(n) == [t |-> "int", v |-> n]

PyStr(s) == [t |-> "str", v |-> s]

PyList(l) == [t |-> "list", v |-> l]

Raise(e) == [t |-> "raise", exc |-> e]

EmptyDict == [k \in {} |-> None]

\* d[k] = v on a dict: the key is added or its value replaced.
SetItem(d, k, v) == [x \in DOMAIN d \cup {k} |-> IF x = k THEN v ELSE d[x]]

----------------------------------------------------------------------------
(* The inputs of a handler invocation *)

Commands == {"fetch", "load", "FETCH"}

\* Resource strings, with what urllib.parse.urlparse makes of each.
Resources ==
    { "", "/path", "https:///p", "https://h/p", "https://h:8443/p",
      "https://h:x/p", "http://h/p" }

\* The (hostname, port text, netloc) urlparse finds in a resource string.
\* hostname is None when the string has no "//host" part; the port text is
\* what follows the host's colon.
urlparse(resource) ==
    CASE resource = "https://h/p" ->
            [hostname |-> PyStr("h"), porttext |-> None, netloc |-> "h",
             scheme |-> "https"]
      [] resource = "https://h:8443/p" ->
            [hostname |-> PyStr("h"), porttext |-> PyStr("8443"),
             netloc |-> "h:8443", scheme |-> "https"]
      [] resource = "https://h:x/p" ->
            [hostname |-> PyStr("h"), porttext |-> PyStr("x"),
             netloc |-> "h:x", scheme |-> "https"]
      [] resource = "http://h/p" ->
            [hostname |-> PyStr("h"), porttext |-> None, netloc |-> "h",
             scheme |-> "http"]
      [] resource = "https:///p" ->
            [hostname |-> None, porttext |-> None, netloc |-> "",
             scheme |-> "https"]
      [] OTHER ->
            [hostname |-> None, porttext |-> None, netloc |-> "",
             scheme |-> ""]

\* url.port: None without a port text, the number of a decimal port text,
\* ValueError for any other port text.
url_port(url) ==
    CASE url.porttext = None -> None
      [] url.porttext = PyStr("8443") -> PyInt(8443)
      [] OTHER -> Raise("ValueError")

\* The options dicts a caller passes (method, body and bodyObject keys).
OptionsSet ==
    { EmptyDict,
      [method |-> "POST", bodyObject |-> PyList(<<PyInt(1)>>)],
      [body |-> PyStr(<<49>>)],
      [method |-> "PUT", body |-> PyStr(<<49>>), bodyObject |-> None,
       headers |-> [Accept |-> "text/plain"]] }

\* The parameters dicts: 'resource' and 'options' are each present or not.
ParametersSet ==
    { EmptyDict } \cup
    { [options |-> o] : o \in {EmptyDict} } \cup
    { [resource |-> r] : r \in Resources } \cup
    { [resource |-> r, options |-> o] : r \in Resources, o \in OptionsSet }

\* The command objects the handler is called with: 'fetch' with each of
\* the parameters, and the other commands with or without a resource.
CommandObjects ==
    { [command |-> "fetch", parameters |-> params] :
        params \in ParametersSet }
    \cup { [command |-> cmd, parameters |-> params] :
            cmd \in Commands \ {"fetch"},
            params \in { EmptyDict, [resource |-> "https://h/p"] } }

----------------------------------------------------------------------------
(* base64.b64encode, bytes.decode('utf-8') and str.encode() *)

B64Alphabet ==
    << "A", "B", "C", "D", "E", "F", "G", "H", "I", "J", "K", "L", "M",
       "N", "O", "P", "Q", "R", "S", "T", "U", "V", "W", "X", "Y", "Z",
       "a", "b", "c", "d", "e", "f", "g", "h", "i", "j", "k", "l", "m",
       "n", "o", "p", "q", "r", "s", "t", "u", "v", "w", "x", "y", "z",
       "0", "1", "2", "3", "4", "5", "6", "7", "8", "9", "+", "/" >>

B64Char(n) == B64Alphabet[n + 1]

RECURSIVE b64encode(_)
\* Three bytes make four characters; a last group of one or two bytes is
\* padded with "=".
b64encode(b) ==
    IF Len(b) = 0 THEN << >>
    ELSE IF Len(b) = 1
    THEN << B64Char(b[1] \div 4), B64Char((b[1] % 4) * 16), "=", "=" >>
    ELSE IF Len(b) = 2
    THEN << B64Char(b[1] \div 4),
            B64Char((b[1] % 4) * 16 + (b[2] \div 16)),
            B64Char((b[2] % 16) * 4), "=" >>
    ELSE << B64Char(b[1] \div 4),
            B64Char((b[1] % 4) * 16 + (b[2] \div 16)),
            B64Char((b[2] % 16) * 4 + (b[3] \div 64)),
            B64Char(b[3] % 64) >> \o b64encode(SubSeq(b, 4, Len(b)))

IsContinuation(x) == x \in 128 .. 191

\* The length of the UTF-8 sequence that starts b, 0 when b starts with
\* no well-formed sequence (strict decoding: no overlong forms, no
\* surrogates, nothing above U+10FFFF).
Utf8SeqLen(b) ==
    IF b[1] < 128 THEN 1
    ELSE IF b[1] \in 194 .. 223 /\ Len(b) >= 2 /\ IsContinuation(b[2]) THEN 2
    ELSE IF /\ b[1] \in 224 .. 239 /\ Len(b) >= 3
            /\ IsContinuation(b[2]) /\ IsContinuation(b[3])
            /\ (b[1] = 224 => b[2] >= 160)
            /\ (b[1] = 237 => b[2] <= 159) THEN 3
    ELSE IF /\ b[1] \in 240 .. 244 /\ Len(b) >= 4
            /\ IsContinuation(b[2]) /\ IsContinuation(b[3])
            /\ IsContinuation(b[4])
            /\ (b[1] = 240 => b[2] >= 144)
            /\ (b[1] = 244 => b[2] <= 143) THEN 4
    ELSE 0

Utf8Point(b, n) ==
    CASE n = 1 -> b[1]
      [] n = 2 -> (b[1] - 192) * 64 + (b[2] - 128)
      [] n = 3 -> (b[1] - 224) * 4096 + (b[2] - 128) * 64 + (b[3] - 128)
      [] n = 4 -> (b[1] - 240) * 262144 + (b[2] - 128) * 4096
                     + (b[3] - 128) * 64 + (b[4] - 128)

RECURSIVE Utf8Valid(_)
Utf8Valid(b) ==
    \/ Len(b) = 0
    \/ /\ Utf8SeqLen(b) > 0
       /\ Utf8Valid(SubSeq(b, Utf8SeqLen(b) + 1, Len(b)))

RECURSIVE Utf8Points(_)
Utf8Points(b) ==
    IF Len(b) = 0 THEN << >>
    ELSE << Utf8Point(b, Utf8SeqLen(b)) >>
            \o Utf8Points(SubSeq(b, Utf8SeqLen(b) + 1, Len(b)))

\* bytes.decode('utf-8'): the text, or UnicodeDecodeError.
decode(b) ==
    IF Utf8Valid(b) THEN PyStr(Utf8Points(b)) ELSE Raise("UnicodeDecodeError")

RECURSIVE encode(_)
\* str.encode(): the UTF-8 bytes of a sequence of code points.
encode(s) ==
    IF Len(s) = 0 THEN << >>
    ELSE LET p == s[1]
             head == IF p < 128 THEN << p >>
                     ELSE IF p < 2048
                     THEN << 192 + (p \div 64), 128 + (p % 64) >>
                     ELSE IF p < 65536
                     THEN << 224 + (p \div 4096), 128 + ((p \div 64) % 64),
                             128 + (p % 64) >>
                     ELSE << 240 + (p \div 262144),
                             128 + ((p \div 4096) % 64),
                             128 + ((p \div 64) % 64), 128 + (p % 64) >>
         IN  head \o encode(Tail(s))

----------------------------------------------------------------------------
(* json.loads and json.dumps, for null, integers and arrays *)

Whitespace == {32, 9, 10, 13}

Digits == 48 .. 57

RECURSIVE skip_ws(_, _)
\* The first index from i on that holds no whitespace.
skip_ws(s, i) ==
    IF i <= Len(s) /\ s[i] \in Whitespace THEN skip_ws(s, i + 1) ELSE i

RECURSIVE DigitsEnd(_, _)
\* The first index from i on that holds no digit.
DigitsEnd(s, i) ==
    IF i <= Len(s) /\ s[i] \in Digits THEN DigitsEnd(s, i + 1) ELSE i

RECURSIVE DigitsValue(_, _, _)
\* The number written by the digits of s in i .. j-1.
DigitsValue(s, i, j) ==
    IF i >= j THEN 0
    ELSE DigitsValue(s, i, j - 1) * 10 + (s[j - 1] - 48)

Scanned(value, end) == [ok |-> TRUE, value |-> value, end |-> end]

\* A JSONDecodeError: its message and its position, counted from 0.
DecodeError(msg, pos) == [ok |-> FALSE, msg |-> msg, pos |-> pos]

RECURSIVE scan_once(_, _)
RECURSIVE JSONArrayItems(_, _, _)

\* The items of an array from index j on, after those of acc.
JSONArrayItems(s, j, acc) ==
    LET r == scan_once(s, j)
    IN  IF ~r.ok THEN r
        ELSE LET k == skip_ws(s, r.end)
             IN  IF k <= Len(s) /\ s[k] = 93
                 THEN Scanned(PyList(Append(acc, r.value)), k + 1)
                 ELSE IF k > Len(s) \/ s[k] # 44
                 THEN DecodeError("Expecting ',' delimiter", k - 1)
                 ELSE JSONArrayItems(s, skip_ws(s, k + 1),
                                     Append(acc, r.value))

\* The array whose "[" stands right before index i.
JSONArray(s, i) ==
    LET j == skip_ws(s, i)
    IN  IF j <= Len(s) /\ s[j] = 93 THEN Scanned(PyList(<< >>), j + 1)
        ELSE JSONArrayItems(s, j, << >>)

\* The value that starts at index i: an array, null or an integer.
scan_once(s, i) ==
    IF i > Len(s) THEN DecodeError("Expecting value", i - 1)
    ELSE IF s[i] = 91 THEN JSONArray(s, i + 1)
    ELSE IF /\ s[i] = 110 /\ i + 3 <= Len(s)
            /\ SubSeq(s, i, i + 3) = << 110, 117, 108, 108 >>
    THEN Scanned(None, i + 4)
    ELSE IF s[i] = 48 THEN Scanned(PyInt(0), i + 1)
    ELSE IF s[i] \in Digits
    THEN Scanned(PyInt(DigitsValue(s, i, DigitsEnd(s, i))), DigitsEnd(s, i))
    ELSE DecodeError("Expecting value", i - 1)

\* json.loads on a text: the value, or the JSONDecodeError.
json_loads(s) ==
    LET r == scan_once(s, skip_ws(s, 1))
    IN  IF ~r.ok THEN r
        ELSE IF skip_ws(s, r.end) <= Len(s)
        THEN DecodeError("Extra data", skip_ws(s, r.end) - 1)
        ELSE r

\* JSONDecodeError.lineno: one more than the newlines before pos.
lineno(s, pos) == 1 + Cardinality({m \in 1 .. pos : s[m] = 10})

\* JSONDecodeError.colno: pos counted from the last newline before it.
colno(s, pos) ==
    LET newlines == {m \in 1 .. pos : s[m] = 10}
        last == IF newlines = {} THEN 0
                ELSE CHOOSE m \in newlines : \A n \in newlines : n <= m
    IN  pos - last + 1

RECURSIVE IntDigits(_)
\* The decimal digits of a number >= 0.
IntDigits(n) ==
    IF n < 10 THEN << 48 + n >>
    ELSE Append(IntDigits(n \div 10), 48 + (n % 10))

RECURSIVE json_dumps(_)
RECURSIVE JSONItems(_)

\* The items of a list, separated by ", ".
JSONItems(l) ==
    IF Len(l) = 0 THEN << >>
    ELSE IF Len(l) = 1 THEN json_dumps(l[1])
    ELSE json_dumps(l[1]) \o << 44, 32 >> \o JSONItems(Tail(l))

\* json.dumps of None, an integer >= 0 or a list of such values.
json_dumps(v) ==
    CASE v.t = "None" -> << 110, 117, 108, 108 >>
      [] v.t = "int" -> IntDigits(v.v)
      [] v.t = "list" -> << 91 >> \o JSONItems(v.v) \o << 93 >>

----------------------------------------------------------------------------
(* What the network and the openssl CLI can answer *)

\* The DER bytes of the certificate a peer presents in the handshake.
PeerCertificates == { << 48 >>, << 48, 130 >>, << 48, 130, 1, 10 >> }

\* How HTTPSConnection(...) and connection.connect() can end.
ConnectOutcomes ==
    { [phase |-> "construct", error |-> "ValueError"],
      [phase |-> "connect", error |-> "ConnectionRefusedError"],
      [phase |-> "connect", error |-> "SSLCertVerificationError"] }
    \cup { [phase |-> "connected", peercert |-> der] : der \in PeerCertificates }

\* The bytes a response body is made of: "1", "[", "]", a newline, the two
\* bytes of U+00E9 and a byte that no UTF-8 text holds.
BodyBytes == { 49, 91, 93, 10, 195, 169, 255 }

RECURSIVE BytesUpTo(_)
BytesUpTo(n) ==
    IF n = 0 THEN { << >> }
    ELSE BytesUpTo(n - 1)
         \cup { Append(b, x) : b \in { y \in BytesUpTo(n - 1) : Len(y) = n - 1 },
                               x \in BodyBytes }

\* The response bodies: every short body over BodyBytes, and some longer
\* ones (null, nul, [1], [1, null], [\n1 and 1\n1).
Bodies ==
    BytesUpTo(MaxBodyLen)
    \cup { << 110, 117, 108, 108 >>, << 110, 117, 108 >>, << 91, 49, 93 >>,
           << 91, 49, 44, 32, 110, 117, 108, 108, 93 >>,
           << 91, 10, 49 >>, << 49, 10, 49 >> }

Statuses == { 200, 399, 400, 404 }

\* How the exchange on an open connection can end: the request cannot be
\* written, no response arrives, the body cannot be read to its end, or a
\* response is read whole.
Replies ==
    { [kind |-> "send_failed"], [kind |-> "no_response"] }
    \cup { [kind |-> "read_failed", status |-> st] : st \in Statuses }
    \cup { [kind |-> "response", status |-> st,
            reason |-> IF st < 400 THEN "OK" ELSE "Not Found",
            headers |-> [Server |-> "test"], body |-> b] :
           st \in Statuses, b \in Bodies }

\* The runs of `openssl s_client`: the tool is missing, or it prints these
\* lines on its standard output.
OpensslRuns ==
    { [installed |-> FALSE, stdout |-> << >>] }
    \cup { [installed |-> TRUE, stdout |-> out] :
           out \in { << >>,
                     << "connect:errno=111" >>,
                     << "CONNECTED(00000003)", "---",
                        "-----BEGIN CERTIFICATE-----", "MIIB",
                        "-----END CERTIFICATE-----", "---" >> } }

\* The inputs of interleaved invocations: two resources, two peers, two
\* responses, and an openssl run that prints a certificate.
ConcurrentObjects ==
    { o \in CommandObjects :
        /\ o.command = "fetch"
        /\ o.parameters \in { [resource |-> "https://h/p"],
                              [resource |-> "https://h:8443/p"] } }

ConcurrentOutcomes ==
    { o \in ConnectOutcomes :
        o.phase = "connected" /\ o.peercert \in { << 48 >>, << 48, 130 >> } }

ConcurrentReplies ==
    { r \in Replies :
        /\ r.kind = "response"
        /\ \/ r.status = 200 /\ r.body = << 49 >>
           \/ r.status = 404 /\ r.body = << >> }

ConcurrentRuns == { r \in OpensslRuns : r.installed /\ Len(r.stdout) > 1 }

\* The options of a request: 'method', 'body', 'bodyObject' and 'headers'
\* are each present or not, 'bodyObject' may be null, and the caller's
\* headers may name Content-Type themselves.
RequestOptions ==
    { method @@ body @@ bodyObject @@ headers :
        method \in { EmptyDict, [method |-> "POST"] },
        body \in { EmptyDict, [body |-> PyStr(<< 49 >>)] },
        bodyObject \in { EmptyDict, [bodyObject |-> PyList(<< PyInt(1) >>)],
                         [bodyObject |-> None] },
        headers \in { EmptyDict, [headers |-> EmptyDict],
                      [headers |-> [Accept |-> "text/plain"]],
                      [headers |-> ("Content-Type" :> "text/plain")] } }

\* The command objects of the requests: a fetch of one resource with each
\* of the options, or with none.
RequestObjects ==
    { [command |-> "fetch", parameters |-> params] :
        params \in { [resource |-> "https://h/p"] }
                   \cup { [resource |-> "https://h/p", options |-> o] :
                          o \in RequestOptions } }

\* The peer and the response of the requests: one certificate, and a
\* response with status 404 and no body.
RequestOutcomes == { o \in ConnectOutcomes :
                        o.phase = "connected" /\ o.peercert = << 48 >> }

RequestReplies == { r \in Replies :
                        r.kind = "response" /\ r.status = 404
                        /\ r.body = << >> }

----------------------------------------------------------------------------
VARIABLES
    ctor,             \* where the construction of the Fetcher stands
    pemFile,          \* the lines of the temporary PEM file
    securityRuns,     \* the runs of `security export` made, in order
    certificates,     \* keychain_PEM's local certificates
    ctorRaised,       \* the exception that left Fetcher.__init__, or None
    pc,               \* where each invocation stands
    stages,           \* the stages each invocation entered, in order
    commandObject,    \* the command object of the invocation
    command,          \* the command of the invocation
    parameters,       \* the parameters of the invocation
    url,              \* fetch's local url
    port,             \* fetch's local port
    connection,       \* fetch's local connection (the HTTPSConnection)
    peerCertEncoded,  \* fetch's closure variable
    peerCertLength,   \* fetch's closure variable
    fetchedRaw,       \* fetch's closure variable
    details,          \* fetch's local details
    fetchedObject,    \* fetch's local fetchedObject
    result,           \* what the invocation returned
    raised,           \* the exception that left the invocation, or None
    thumbprint,       \* the openssl cross-check the invocation ran, or None
    handshake,        \* how the invocation's connection attempt ended, or None
    reply,            \* what the network answered to the request, or None
    _pemPath,         \* Fetcher._pemPath
    _sslContext       \* Fetcher._sslContext

\* The state of the construction of the Fetcher.
construction == << ctor, pemFile, securityRuns, certificates, ctorRaised >>

vars ==
    << construction, pc, stages, commandObject, command, parameters, url, port, connection, peerCertEncoded,
       peerCertLength, fetchedRaw, details, fetchedObject, result, raised,
       thumbprint, handshake, reply, _pemPath, _sslContext >>

\* An invocation that is not running: it never ran, returned or raised.
AtRest(c) == pc[c] \in {"idle", "returned", "raised", "skipped"}

----------------------------------------------------------------------------
(* Fetcher._parse_resource *)

_parse_resource(params) ==
    IF "resource" \notin DOMAIN params
    THEN [t |-> "tuple", url |-> None, port |-> None,
          fetchError |-> [statusText |-> "No \"resource\" in parameters.",
                          parameterKeys |-> DOMAIN params]]
    ELSE LET resource == params["resource"]
             u == urlparse(resource)
         IN  IF u.hostname = None
             THEN [t |-> "tuple", url |-> None, port |-> None,
                   fetchError |-> [statusText |-> "No host in parameters.resource",
                                   resource |-> resource,
                                   url |-> u]]
             ELSE IF url_port(u).t = "raise"
             THEN url_port(u)
             ELSE [t |-> "tuple", url |-> u,
                   port |-> IF url_port(u) = None THEN PyInt(443) ELSE url_port(u),
                   fetchError |-> None]

----------------------------------------------------------------------------
(* Fetcher.fetch's inner return_ *)

\* return_ as the older fetch_JSON built a failure: without the certificate.
return_WithoutCertificateOnFailure(c, status, fetched, dets) ==
    LET withStatus == IF status # None THEN SetItem(dets, "status", status)
                      ELSE dets
    IN  IF fetched = None
        THEN [peerCertificateDER |-> None, peerCertificateLength |-> None,
              fetchedRaw |-> fetchedRaw[c], fetchError |-> withStatus]
        ELSE [peerCertificateDER |-> peerCertEncoded[c],
              peerCertificateLength |-> peerCertLength[c],
              fetchedRaw |-> fetchedRaw[c], fetched |-> fetched,
              fetchedDetails |-> withStatus]

\* return_ reporting the details under 'fetchedDetails' on a failure too.
return_DetailsOnFailure(c, status, fetched, dets) ==
    LET base == [peerCertificateDER |-> peerCertEncoded[c],
                 peerCertificateLength |-> peerCertLength[c],
                 fetchedRaw |-> fetchedRaw[c]]
        withStatus == IF status # None THEN SetItem(dets, "status", status)
                      ELSE dets
    IN  IF fetched = None
        THEN SetItem(SetItem(base, "fetchError", withStatus),
                     "fetchedDetails", withStatus)
        ELSE SetItem(SetItem(base, "fetched", fetched),
                     "fetchedDetails", withStatus)

return_(c, status, fetched, dets) ==
    LET base == [peerCertificateDER |-> peerCertEncoded[c],
                 peerCertificateLength |-> peerCertLength[c],
                 fetchedRaw |-> fetchedRaw[c]]
        withStatus == IF status # None THEN SetItem(dets, "status", status)
                      ELSE dets
    IN  IF fetched = None
        THEN SetItem(base, "fetchError", withStatus)
        ELSE SetItem(SetItem(base, "fetched", fetched),
                     "fetchedDetails", withStatus)

----------------------------------------------------------------------------
(* Fetcher._connect, get_peer_certificate, _request, _parse_JSON and       *)
(* openssl_thumbprint                                                      *)

\* The connections the invocations hold.
Held == { connection[d] : d \in { e \in Calls : connection[e] # None } }

\* A pooled HTTPSConnection: a connection another invocation holds to the
\* same host and port is handed out again.
HTTPSConnection_Pooled(object) ==
    LET same == { h \in Held : h.host = object.host /\ h.port = object.port }
        taken == { h.id : h \in Held }
    IN  IF same # {} THEN CHOOSE h \in same : TRUE
        ELSE [id |-> CHOOSE i \in Calls : i \notin taken] @@ object

\* HTTPSConnection(...), line 270: each call constructs a new object, whose
\* identity no object alive in another invocation has.
HTTPSConnection(object) ==
    LET taken == { h.id : h \in Held }
    IN  [id |-> CHOOSE i \in Calls : i \notin taken] @@ object

\* _connect with the second handler's text copied from the first: a failed
\* handshake reads as a failed construction.
_connect_OnePhaseText(host, prt, outcome) ==
    IF outcome.phase = "connected"
    THEN [t |-> "tuple",
          connection |-> [t |-> "HTTPSConnection", host |-> host,
                          port |-> prt, context |-> _sslContext,
                          sock |-> "connected",
                          peercert |-> outcome.peercert, sent |-> None],
          fetchError |-> None]
    ELSE [t |-> "tuple", connection |-> None,
          fetchError |->
             [statusText |-> << "HTTPSConnection(", host.v, ",", prt.v,
                                ",) ", outcome.error >>]]

\* _connect: both phases catch Exception and return (None, error dict);
\* the statusText names the phase, the host and the port.
_connect(host, prt, outcome) ==
    CASE outcome.phase = "construct" ->
            [t |-> "tuple", connection |-> None,
             fetchError |->
                [statusText |-> << "HTTPSConnection(", host.v, ",", prt.v,
                                   ",) ", outcome.error >>]]
      [] outcome.phase = "connect" ->
            [t |-> "tuple", connection |-> None,
             fetchError |->
                [statusText |-> << "HTTPSConnection(", host.v, ",", prt.v,
                                   ",).connect() ", outcome.error >>]]
      [] outcome.phase = "connected" ->
            [t |-> "tuple",
             connection |-> [t |-> "HTTPSConnection", host |-> host,
                             port |-> prt, context |-> _sslContext,
                             sock |-> "connected",
                             peercert |-> outcome.peercert,
                             sent |-> None],
             fetchError |-> None]

\* get_peer_certificate: the base64 text of the certificate's DER bytes and
\* their number.
get_peer_certificate(conn) ==
    [t |-> "tuple",
     encoded |-> PyStr(b64encode(conn.peercert)),
     length |-> PyInt(Len(conn.peercert))]

RECURSIVE DictItems(_)
\* dict.items() as a sequence of (key, value) pairs.
DictItems(d) ==
    IF DOMAIN d = {} THEN << >>
    ELSE LET k == CHOOSE x \in DOMAIN d : TRUE
         IN  << << k, d[k] >> >> \o DictItems([x \in DOMAIN d \ {k} |-> d[x]])

\* The request with the Content-Type header written for 'body' alone.
RequestOf_ContentTypeForBody(params) ==
    LET options == IF "options" \in DOMAIN params THEN params["options"]
                   ELSE EmptyDict
    IN  [method |-> IF "method" \in DOMAIN options THEN options["method"]
                    ELSE "GET",
         url |-> params["resource"],
         headers |->
            (IF "body" \in DOMAIN options
             THEN << << "Content-Type", "application/json" >> >> ELSE << >>)
            \o (IF "headers" \in DOMAIN options
                THEN DictItems(options["headers"]) ELSE << >>),
         body |-> IF "body" \in DOMAIN options
                  THEN [t |-> "bytes", v |-> encode(options["body"].v)]
                  ELSE IF "bodyObject" \in DOMAIN options
                  THEN [t |-> "bytes",
                        v |-> encode(json_dumps(options["bodyObject"]))]
                  ELSE None]

\* The request _request writes to the connection: putrequest, the
\* Content-Type header, the caller's headers, then the body.
RequestOf(params) ==
    LET options == IF "options" \in DOMAIN params THEN params["options"]
                   ELSE EmptyDict
    IN  [method |-> IF "method" \in DOMAIN options THEN options["method"]
                    ELSE "GET",
         url |-> params["resource"],
         headers |->
            (IF "body" \in DOMAIN options \/ "bodyObject" \in DOMAIN options
             THEN << << "Content-Type", "application/json" >> >> ELSE << >>)
            \o (IF "headers" \in DOMAIN options
                THEN DictItems(options["headers"]) ELSE << >>),
         body |-> IF "body" \in DOMAIN options
                  THEN [t |-> "bytes", v |-> encode(options["body"].v)]
                  ELSE IF "bodyObject" \in DOMAIN options
                  THEN [t |-> "bytes",
                        v |-> encode(json_dumps(options["bodyObject"]))]
                  ELSE None]

\* _request: what it returns or raises for a reply of the network.  Nothing
\* in it catches a failure of the connection or of decode('utf-8').
_request(params, answer) ==
    CASE answer.kind = "send_failed" -> Raise("BrokenPipeError")
      [] answer.kind = "no_response" -> Raise("RemoteDisconnected")
      [] answer.kind = "read_failed" -> Raise("IncompleteRead")
      [] answer.kind = "response" ->
            IF decode(answer.body).t = "raise" THEN decode(answer.body)
            ELSE [t |-> "tuple",
                  raw |-> decode(answer.body),
                  details |-> [status |-> PyInt(answer.status),
                               statusText |-> answer.reason,
                               headers |-> answer.headers]]

\* _parse_JSON: an empty text is returned as it is, with no error; a
\* JSONDecodeError becomes the error dict.
_parse_JSON(raw) ==
    IF raw = None \/ Len(raw.v) = 0
    THEN [t |-> "tuple", object |-> raw, fetchError |-> None]
    ELSE LET r == json_loads(raw.v)
         IN  IF r.ok
             THEN [t |-> "tuple", object |-> r.value, fetchError |-> None]
             ELSE [t |-> "tuple", object |-> None,
                   fetchError |->
                      [statusText |-> "JSONDecodeError",
                       headers |-> [msg |-> r.msg,
                                    lineno |-> PyInt(lineno(raw.v, r.pos)),
                                    colno |-> PyInt(colno(raw.v, r.pos))]]]

IsBeginCertificate(line) == line = "-----BEGIN CERTIFICATE-----"

IsEndCertificate(line) == line = "-----END CERTIFICATE-----"

RECURSIVE s_clientCertificatePEM(_, _)
\* The loop over the lines of the s_client output: pem stays None until a
\* BEGIN CERTIFICATE line, and the loop ends at an END CERTIFICATE line.
s_clientCertificatePEM(lines, pem) ==
    IF Len(lines) = 0 THEN pem
    ELSE LET line == Head(lines)
             begun == IF IsBeginCertificate(line) THEN PyList(<< >>) ELSE pem
             added == IF begun # None THEN PyList(Append(begun.v, line))
                      ELSE begun
         IN  IF IsEndCertificate(line) THEN added
             ELSE s_clientCertificatePEM(Tail(lines), added)

\* openssl_thumbprint: subprocess.run raises FileNotFoundError when there
\* is no openssl to run, and len(s_clientCertificatePEM) raises TypeError
\* when the output held no certificate; otherwise it returns None.
openssl_thumbprint(run) ==
    IF ~run.installed THEN Raise("FileNotFoundError")
    ELSE IF s_clientCertificatePEM(run.stdout, None) = None
    THEN Raise("TypeError")
    ELSE None

----------------------------------------------------------------------------
(* Fetcher.__init__ and keychain_PEM *)

\* The keychains the certificates are exported from.
_keychains == << "SystemRootCertificates.keychain", "System.keychain" >>

\* The temporary file NamedTemporaryFile creates.
pemPath == [t |-> "Path", name |-> "tmp.pem"]

\* The lines of one certificate in a pemseq export.
PEM(body) ==
    << "-----BEGIN CERTIFICATE-----", body, "-----END CERTIFICATE-----" >>

\* How a run of `security export` can end: the tool is missing, or it
\* exits with a return code after writing lines to its standard output and
\* a diagnostic to its standard error.
SecurityRuns ==
    { [installed |-> FALSE, returncode |-> 0, stdout |-> << >>,
       stderr |-> << >>],
      [installed |-> TRUE, returncode |-> 0, stdout |-> PEM("MIIA"),
       stderr |-> << >>],
      [installed |-> TRUE, returncode |-> 0,
       stdout |-> PEM("MIIB") \o PEM("MIIC"), stderr |-> << >>],
      [installed |-> TRUE, returncode |-> 0, stdout |-> << >>,
       stderr |-> << >>],
      [installed |-> TRUE, returncode |-> 1, stdout |-> << >>,
       stderr |-> << "security: SecKeychainOpen: not found" >>],
      [installed |-> TRUE, returncode |-> 1,
       stdout |-> << "-----BEGIN CERTIFICATE-----", "MIID" >>,
       stderr |-> << "security: SecKeychainItemExport: failed" >>] }

\* keychain_PEM, lines 130-137: the lines that start with '--' and contain
\* 'BEGIN CERTIFICATE' are counted.
RECURSIVE CountCertificates(_)
CountCertificates(lines) ==
    IF lines = << >> THEN 0
    ELSE (IF IsBeginCertificate(Head(lines)) THEN 1 ELSE 0)
         + CountCertificates(Tail(lines))

\* The complete certificate blocks of a PEM file, or -1 when a block is
\* begun and not ended.
RECURSIVE PEMBlocks(_, _, _)
PEMBlocks(lines, begun, blocks) ==
    IF lines = << >> THEN (IF begun THEN -1 ELSE blocks)
    ELSE IF IsBeginCertificate(Head(lines))
    THEN (IF begun THEN -1 ELSE PEMBlocks(Tail(lines), TRUE, blocks))
    ELSE IF IsEndCertificate(Head(lines))
    THEN PEMBlocks(Tail(lines), FALSE, IF begun THEN blocks + 1 ELSE blocks)
    ELSE PEMBlocks(Tail(lines), begun, blocks)

\* load_verify_locations taking any file: a file with no certificate loads
\* none, and no error is raised.
load_verify_locations_Lenient(context, lines) ==
    LET blocks == PEMBlocks(lines, FALSE, 0)
    IN  [context EXCEPT !.cacerts = IF blocks < 1 THEN 0 ELSE blocks]

\* SSLContext.load_verify_locations, line 91: the certificates of the file
\* are added to the context; a file with no certificate, or with a block
\* that does not parse, raises ssl.SSLError.
load_verify_locations(context, lines) ==
    LET blocks == PEMBlocks(lines, FALSE, 0)
    IN  IF blocks < 1 THEN Raise("SSLError")
        ELSE [context EXCEPT !.cacerts = blocks]

\* keychain_PEM, lines 113-114: the temporary file is created, empty.
NamedTemporaryFile ==
    /\ ctor = "__init__"
    /\ ctor' = "securityRun"
    /\ pemFile' = << >>
    /\ UNCHANGED << securityRuns, certificates, ctorRaised, pc, stages,
                    commandObject, command, parameters, url, port,
                    connection, peerCertEncoded, peerCertLength, fetchedRaw,
                    details, fetchedObject, result, raised, thumbprint,
                    handshake, reply, _pemPath, _sslContext >>

\* keychain_PEM, lines 116-128: `security export` is run for the next
\* keychain and what it printed is appended to the file.  The return code
\* and the standard error are not looked at; a missing tool raises
\* FileNotFoundError out of subprocess.run.
securityRun ==
    /\ ctor = "securityRun"
    /\ \E run \in SecurityRuns :
        LET keychain == _keychains[Len(securityRuns) + 1]
        IN  /\ securityRuns' =
                Append(securityRuns, [keychain |-> keychain] @@ run)
            /\ IF ~ run.installed
               THEN /\ ctor' = "raised"
                    /\ ctorRaised' = Raise("FileNotFoundError")
                    /\ UNCHANGED pemFile
               ELSE /\ ctor' = IF Len(securityRuns) + 1 = Len(_keychains)
                               THEN "certificates" ELSE "securityRun"
                    /\ pemFile' = pemFile \o run.stdout
                    /\ UNCHANGED ctorRaised
    /\ UNCHANGED << certificates, pc, stages, commandObject, command,
                    parameters, url, port, connection, peerCertEncoded,
                    peerCertLength, fetchedRaw, details, fetchedObject,
                    result, raised, thumbprint, handshake, reply, _pemPath,
                    _sslContext >>

\* keychain_PEM, lines 130-139: the certificates of the file are counted,
\* and the count is printed.
Certificates ==
    /\ ctor = "certificates"
    /\ ctor' = "_pemPath"
    /\ certificates' = PyInt(CountCertificates(pemFile))
    /\ UNCHANGED << pemFile, securityRuns, ctorRaised, pc, stages,
                    commandObject, command, parameters, url, port,
                    connection, peerCertEncoded, peerCertLength, fetchedRaw,
                    details, fetchedObject, result, raised, thumbprint,
                    handshake, reply, _pemPath, _sslContext >>

\* keychain_PEM, line 141, and __init__, line 86: the path is returned and
\* kept.
SetPemPath ==
    /\ ctor = "_pemPath"
    /\ ctor' = "_sslContext"
    /\ _pemPath' = pemPath
    /\ UNCHANGED << pemFile, securityRuns, certificates, ctorRaised, pc,
                    stages, commandObject, command, parameters, url, port,
                    connection, peerCertEncoded, peerCertLength, fetchedRaw,
                    details, fetchedObject, result, raised, thumbprint,
                    handshake, reply, _sslContext >>

\* __init__, line 90: a client context, with no certificate yet.
SSLContext ==
    /\ ctor = "_sslContext"
    /\ ctor' = "load_verify_locations"
    /\ _sslContext' = [t |-> "SSLContext", protocol |-> "PROTOCOL_TLS_CLIENT",
                       cacerts |-> 0]
    /\ UNCHANGED << pemFile, securityRuns, certificates, ctorRaised, pc,
                    stages, commandObject, command, parameters, url, port,
                    connection, peerCertEncoded, peerCertLength, fetchedRaw,
                    details, fetchedObject, result, raised, thumbprint,
                    handshake, reply, _pemPath >>

\* __init__, line 91: the file is loaded into the context.  SSLError leaves
\* __init__: no Fetcher is constructed.
LoadVerifyLocations ==
    /\ ctor = "load_verify_locations"
    /\ LET loaded == load_verify_locations(_sslContext, pemFile)
       IN  IF loaded.t = "raise"
           THEN /\ ctor' = "raised"
                /\ ctorRaised' = loaded
                /\ UNCHANGED _sslContext
           ELSE /\ ctor' = "constructed"
                /\ _sslContext' = loaded
                /\ UNCHANGED ctorRaised
    /\ UNCHANGED << pemFile, securityRuns, certificates, pc, stages,
                    commandObject, command, parameters, url, port,
                    connection, peerCertEncoded, peerCertLength, fetchedRaw,
                    details, fetchedObject, result, raised, thumbprint,
                    handshake, reply, _pemPath >>

----------------------------------------------------------------------------
(* FetchCommandHandler.__call__ and the head of Fetcher.fetch *)

\* CommandHandler.parseCommandObject: the command and the parameters of the
\* command object, as a pair.
parseCommandObject(object) ==
    [t |-> "tuple", command |-> object.command,
     parameters |-> object.parameters]

\* __call__ with the comparison dropped: every command reaches fetch.
__call__AnyCommand(object) ==
    LET parsed == parseCommandObject(object)
    IN  [command |-> parsed.command, parameters |-> parsed.parameters,
         fetch |-> TRUE]

\* FetchCommandHandler.__call__, lines 519-524: the pair is unpacked, and
\* fetch is called with the parameters when the command is 'fetch'.
__call__(object) ==
    LET parsed == parseCommandObject(object)
    IN  [command |-> parsed.command, parameters |-> parsed.parameters,
         fetch |-> parsed.command = "fetch"]

\* The handler is invoked with a command object.  Any command but 'fetch'
\* returns None; 'fetch' enters Fetcher.fetch, whose three closure
\* variables start as None.
CallFrom(c, objects) ==
    /\ ctor = "constructed"
    /\ AtRest(c)
    /\ \E object \in objects :
        LET called == __call__(object)
        IN  /\ commandObject' = [commandObject EXCEPT ![c] = object]
            /\ command' = [command EXCEPT ![c] = called.command]
            /\ parameters' = [parameters EXCEPT ![c] = called.parameters]
            /\ pc' = [pc EXCEPT ![c] = IF called.fetch THEN "ParseTarget"
                                       ELSE "skipped"]
    /\ stages' = [stages EXCEPT ![c] = << >>]
    /\ url' = [url EXCEPT ![c] = None]
    /\ port' = [port EXCEPT ![c] = None]
    /\ connection' = [connection EXCEPT ![c] = None]
    /\ peerCertEncoded' = [peerCertEncoded EXCEPT ![c] = None]
    /\ peerCertLength' = [peerCertLength EXCEPT ![c] = None]
    /\ fetchedRaw' = [fetchedRaw EXCEPT ![c] = None]
    /\ details' = [details EXCEPT ![c] = None]
    /\ fetchedObject' = [fetchedObject EXCEPT ![c] = None]
    /\ result' = [result EXCEPT ![c] = None]
    /\ raised' = [raised EXCEPT ![c] = None]
    /\ thumbprint' = [thumbprint EXCEPT ![c] = None]
    /\ handshake' = [handshake EXCEPT ![c] = None]
    /\ reply' = [reply EXCEPT ![c] = None]
    /\ UNCHANGED << _pemPath, _sslContext, construction >>

Call(c) == CallFrom(c, CommandObjects)

\* fetch, lines 179-182: parse the resource, log url.hostname and the port,
\* and only then look at fetchError.  url.port may raise ValueError inside
\* _parse_resource; url.hostname raises AttributeError when url is None.
ParseTarget(c) ==
    /\ pc[c] = "ParseTarget"
    /\ stages' = [stages EXCEPT ![c] = Append(@, "ParseTarget")]
    /\ LET parsed == _parse_resource(parameters[c])
       IN  IF parsed.t = "raise"
           THEN /\ pc' = [pc EXCEPT ![c] = "raised"]
                /\ raised' = [raised EXCEPT ![c] = parsed]
                /\ UNCHANGED << url, port, result >>
           ELSE IF parsed.url = None
           THEN /\ pc' = [pc EXCEPT ![c] = "raised"]
                /\ raised' = [raised EXCEPT ![c] = Raise("AttributeError")]
                /\ UNCHANGED << url, port, result >>
           ELSE IF parsed.fetchError # None
           THEN /\ pc' = [pc EXCEPT ![c] = "returned"]
                /\ result' = [result EXCEPT ![c] =
                                return_(c, PyInt(0), None, parsed.fetchError)]
                /\ UNCHANGED << url, port, raised >>
           ELSE /\ pc' = [pc EXCEPT ![c] = "Connect"]
                /\ url' = [url EXCEPT ![c] = parsed.url]
                /\ port' = [port EXCEPT ![c] = parsed.port]
                /\ UNCHANGED << result, raised >>
    /\ UNCHANGED << commandObject, command, parameters,
                    connection, peerCertEncoded,
                    peerCertLength, fetchedRaw, details, fetchedObject,
                    thumbprint, handshake, reply, _pemPath, _sslContext,
                    construction >>

\* Connect handing the connection straight to the request: the certificate
\* is not read before the request is sent.
ConnectWith_ThenRequest(c, outcomes) ==
    /\ pc[c] = "Connect"
    /\ stages' = [stages EXCEPT ![c] = Append(@, "Connect")]
    /\ \E outcome \in outcomes :
        LET got == _connect(url[c].hostname, port[c], outcome)
        IN  /\ handshake' = [handshake EXCEPT ![c] = outcome]
            /\ IF got.fetchError # None
               THEN /\ pc' = [pc EXCEPT ![c] = "returned"]
                    /\ result' = [result EXCEPT ![c] =
                                    return_(c, PyInt(1), None, got.fetchError)]
                    /\ UNCHANGED connection
               ELSE /\ pc' = [pc EXCEPT ![c] = "SendRequest"]
                    /\ connection' = [connection EXCEPT
                                        ![c] = HTTPSConnection(got.connection)]
                    /\ UNCHANGED result
    /\ UNCHANGED << commandObject, command, parameters, url, port,
                    peerCertEncoded, peerCertLength, fetchedRaw, details,
                    fetchedObject, raised, thumbprint, reply, _pemPath,
                    _sslContext, construction >>

\* fetch, lines 206-208: connect, and return the failure if there is one.
ConnectWith(c, outcomes) ==
    /\ pc[c] = "Connect"
    /\ stages' = [stages EXCEPT ![c] = Append(@, "Connect")]
    /\ \E outcome \in outcomes :
        LET got == _connect(url[c].hostname, port[c], outcome)
        IN  /\ handshake' = [handshake EXCEPT ![c] = outcome]
            /\ IF got.fetchError # None
               THEN /\ pc' = [pc EXCEPT ![c] = "returned"]
                    /\ result' = [result EXCEPT ![c] =
                                    return_(c, PyInt(1), None, got.fetchError)]
                    /\ UNCHANGED connection
               ELSE /\ pc' = [pc EXCEPT ![c] = "CaptureCertificate"]
                    /\ connection' = [connection EXCEPT
                                        ![c] = HTTPSConnection(got.connection)]
                    /\ UNCHANGED result
    /\ UNCHANGED << commandObject, command, parameters,
                    url, port, peerCertEncoded,
                    peerCertLength, fetchedRaw, details, fetchedObject,
                    raised, thumbprint, reply, _pemPath, _sslContext,
                    construction >>

Connect(c) == ConnectWith(c, ConnectOutcomes)

\* CaptureCertificate on a context it empties of its certificates, as a
\* fetch that turned verification off for the next connection would.
CaptureCertificate_ResetContext(c) ==
    /\ pc[c] = "CaptureCertificate"
    /\ stages' = [stages EXCEPT ![c] = Append(@, "CaptureCertificate")]
    /\ LET got == get_peer_certificate(connection[c])
       IN  /\ peerCertEncoded' = [peerCertEncoded EXCEPT ![c] = got.encoded]
           /\ peerCertLength' = [peerCertLength EXCEPT ![c] = got.length]
    /\ pc' = [pc EXCEPT ![c] = "SendRequest"]
    /\ _sslContext' = [_sslContext EXCEPT !.cacerts = 0]
    /\ UNCHANGED << commandObject, command, parameters, url, port,
                    connection, fetchedRaw, details, fetchedObject, result,
                    raised, thumbprint, handshake, reply, _pemPath,
                    construction >>

\* fetch, lines 210-211: read the peer certificate of the connection.
CaptureCertificate(c) ==
    /\ pc[c] = "CaptureCertificate"
    /\ stages' = [stages EXCEPT ![c] = Append(@, "CaptureCertificate")]
    /\ LET got == get_peer_certificate(connection[c])
       IN  /\ peerCertEncoded' = [peerCertEncoded EXCEPT ![c] = got.encoded]
           /\ peerCertLength' = [peerCertLength EXCEPT ![c] = got.length]
    /\ pc' = [pc EXCEPT ![c] = "SendRequest"]
    /\ UNCHANGED << commandObject, command, parameters,
                    url, port, connection, fetchedRaw,
                    details, fetchedObject, result, raised, thumbprint,
                    handshake, reply, _pemPath, _sslContext,
                    construction >>

\* fetch, line 213: send the request and read the response.  An exception
\* of _request leaves fetch at once: line 214 is not reached.
SendRequestWith(c, replies) ==
    /\ pc[c] = "SendRequest"
    /\ stages' = [stages EXCEPT ![c] = Append(@, "SendRequest")]
    /\ connection' = [connection EXCEPT
                        ![c].sent = RequestOf(parameters[c])]
    /\ \E answer \in replies :
        LET got == _request(parameters[c], answer)
        IN  /\ reply' = [reply EXCEPT ![c] = answer]
            /\ IF got.t = "raise"
               THEN /\ pc' = [pc EXCEPT ![c] = "raised"]
                    /\ raised' = [raised EXCEPT ![c] = got]
                    /\ UNCHANGED << fetchedRaw, details >>
               ELSE /\ pc' = [pc EXCEPT ![c] = "ClassifyStatus"]
                    /\ fetchedRaw' = [fetchedRaw EXCEPT ![c] = got.raw]
                    /\ details' = [details EXCEPT ![c] = got.details]
                    /\ UNCHANGED raised
    /\ UNCHANGED << commandObject, command, parameters,
                    url, port, peerCertEncoded,
                    peerCertLength, fetchedObject, result, thumbprint,
                    handshake, _pemPath, _sslContext,
                    construction >>

SendRequest(c) == SendRequestWith(c, Replies)

\* ClassifyStatus going on after a status of 400 or more: the failure is
\* recorded and the body is parsed all the same.
ClassifyStatus_Continue(c) ==
    /\ pc[c] = "ClassifyStatus"
    /\ stages' = [stages EXCEPT ![c] = Append(@, "ClassifyStatus")]
    /\ connection' = [connection EXCEPT ![c].sock = "closed"]
    /\ pc' = [pc EXCEPT ![c] = "ParseBody"]
    /\ IF details[c]["status"].v >= 400
       THEN result' = [result EXCEPT ![c] =
                          return_(c, None, None, details[c])]
       ELSE UNCHANGED result
    /\ UNCHANGED << commandObject, command, parameters, url, port,
                    peerCertEncoded, peerCertLength, fetchedRaw, details,
                    fetchedObject, raised, thumbprint, handshake, reply,
                    _pemPath, _sslContext, construction >>

\* fetch, lines 214-217: close the connection, and return the details as
\* the failure when the status is 400 or more.
ClassifyStatus(c) ==
    /\ pc[c] = "ClassifyStatus"
    /\ stages' = [stages EXCEPT ![c] = Append(@, "ClassifyStatus")]
    /\ connection' = [connection EXCEPT ![c].sock = "closed"]
    /\ IF details[c]["status"].v >= 400
       THEN /\ pc' = [pc EXCEPT ![c] = "returned"]
            /\ result' = [result EXCEPT ![c] =
                            return_(c, None, None, details[c])]
       ELSE /\ pc' = [pc EXCEPT ![c] = "ParseBody"]
            /\ UNCHANGED result
    /\ UNCHANGED << commandObject, command, parameters,
                    url, port, peerCertEncoded,
                    peerCertLength, fetchedRaw, details, fetchedObject,
                    raised, thumbprint, handshake, reply, _pemPath, _sslContext,
                    construction >>

\* fetch, lines 223-225: parse the body, and return the failure if there
\* is one.
ParseBody(c) ==
    /\ pc[c] = "ParseBody"
    /\ stages' = [stages EXCEPT ![c] = Append(@, "ParseBody")]
    /\ LET got == _parse_JSON(fetchedRaw[c])
       IN  IF got.fetchError # None
           THEN /\ pc' = [pc EXCEPT ![c] = "returned"]
                /\ result' = [result EXCEPT ![c] =
                                return_(c, PyInt(2), None, got.fetchError)]
                /\ UNCHANGED fetchedObject
           ELSE /\ pc' = [pc EXCEPT ![c] = "CrossCheck"]
                /\ fetchedObject' = [fetchedObject EXCEPT ![c] = got.object]
                /\ UNCHANGED result
    /\ UNCHANGED << commandObject, command, parameters,
                    url, port, connection,
                    peerCertEncoded, peerCertLength, fetchedRaw, details,
                    raised, thumbprint, handshake, reply, _pemPath, _sslContext,
                    construction >>

\* fetch, lines 231-236: run the openssl cross-check, then return the
\* parsed object with the details.  An exception of openssl_thumbprint
\* leaves fetch.
CrossCheckWith(c, runs) ==
    /\ pc[c] = "CrossCheck"
    /\ \E run \in runs :
        /\ thumbprint' = [thumbprint EXCEPT ![c] =
              [serverName |-> url[c].hostname.v,
               connectAddress |->
                    IF url_port(url[c]) = None
                    THEN << url[c].hostname.v, ":", port[c].v >>
                    ELSE << url[c].netloc >>,
               CAfile |-> _pemPath,
               run |-> run]]
        /\ IF openssl_thumbprint(run) # None
           THEN /\ pc' = [pc EXCEPT ![c] = "raised"]
                /\ raised' = [raised EXCEPT ![c] = openssl_thumbprint(run)]
                /\ stages' = [stages EXCEPT ![c] = Append(@, "CrossCheck")]
                /\ UNCHANGED result
           ELSE /\ pc' = [pc EXCEPT ![c] = "returned"]
                /\ result' = [result EXCEPT ![c] =
                                return_(c, None, fetchedObject[c], details[c])]
                /\ stages' = [stages EXCEPT
                                ![c] = @ \o << "CrossCheck", "Done" >>]
                /\ UNCHANGED raised
    /\ UNCHANGED << commandObject, command, parameters,
                    url, port, connection,
                    peerCertEncoded, peerCertLength, fetchedRaw, details,
                    fetchedObject, handshake, reply, _pemPath, _sslContext,
                    construction >>

CrossCheck(c) == CrossCheckWith(c, OpensslRuns)

----------------------------------------------------------------------------
\* No invocation has been made.
Idle ==
    /\ pc = [c \in Calls |-> "idle"]
    /\ stages = [c \in Calls |-> << >>]
    /\ commandObject = [c \in Calls |-> None]
    /\ command = [c \in Calls |-> ""]
    /\ parameters = [c \in Calls |-> None]
    /\ url = [c \in Calls |-> None]
    /\ port = [c \in Calls |-> None]
    /\ connection = [c \in Calls |-> None]
    /\ peerCertEncoded = [c \in Calls |-> None]
    /\ peerCertLength = [c \in Calls |-> None]
    /\ fetchedRaw = [c \in Calls |-> None]
    /\ details = [c \in Calls |-> None]
    /\ fetchedObject = [c \in Calls |-> None]
    /\ result = [c \in Calls |-> None]
    /\ raised = [c \in Calls |-> None]
    /\ thumbprint = [c \in Calls |-> None]
    /\ handshake = [c \in Calls |-> None]
    /\ reply = [c \in Calls |-> None]

\* A Fetcher has been constructed: both keychains were exported, and the
\* three certificates of the file were loaded.
Init ==
    /\ Idle
    /\ ctor = "constructed"
    /\ securityRuns =
          << [keychain |-> _keychains[1], installed |-> TRUE,
              returncode |-> 0, stdout |-> PEM("MIIA"), stderr |-> << >>],
             [keychain |-> _keychains[2], installed |-> TRUE,
              returncode |-> 0, stdout |-> PEM("MIIB") \o PEM("MIIC"),
              stderr |-> << >>] >>
    /\ pemFile = PEM("MIIA") \o PEM("MIIB") \o PEM("MIIC")
    /\ certificates = PyInt(CountCertificates(pemFile))
    /\ ctorRaised = None
    /\ _pemPath = pemPath
    /\ _sslContext =
          load_verify_locations(
              [t |-> "SSLContext", protocol |-> "PROTOCOL_TLS_CLIENT",
               cacerts |-> 0], pemFile)

\* One handler invocation at a time, as the spec's synchronous callers make
\* them.
Next ==
    \/ Call(1)
    \/ ParseTarget(1)
    \/ Connect(1)
    \/ CaptureCertificate(1)
    \/ SendRequest(1)
    \/ ClassifyStatus(1)
    \/ ParseBody(1)
    \/ CrossCheck(1)

Spec == Init /\ [][Next]_vars

\* One invocation at a time, for each of the request options, to a peer
\* that answers 404.
NextRequest ==
    \/ CallFrom(1, RequestObjects)
    \/ ParseTarget(1)
    \/ ConnectWith(1, RequestOutcomes)
    \/ CaptureCertificate(1)
    \/ SendRequestWith(1, RequestReplies)
    \/ ClassifyStatus(1)

SpecRequest == Init /\ [][NextRequest]_vars

\* The construction of the Fetcher, from the first line of __init__.
InitConstruct ==
    /\ Idle
    /\ ctor = "__init__"
    /\ securityRuns = << >>
    /\ pemFile = None
    /\ certificates = None
    /\ ctorRaised = None
    /\ _pemPath = None
    /\ _sslContext = None

NextConstruct ==
    \/ NamedTemporaryFile
    \/ securityRun
    \/ Certificates
    \/ SetPemPath
    \/ SSLContext
    \/ LoadVerifyLocations

SpecConstruct == InitConstruct /\ [][NextConstruct]_vars

\* Interleaved invocations on one Fetcher, each an own thread of the
\* caller, with inputs that tell the invocations apart.
NextConcurrent ==
    \E c \in Calls :
        \/ CallFrom(c, ConcurrentObjects)
        \/ ParseTarget(c)
        \/ ConnectWith(c, ConcurrentOutcomes)
        \/ CaptureCertificate(c)
        \/ SendRequestWith(c, ConcurrentReplies)
        \/ ClassifyStatus(c)
        \/ ParseBody(c)
        \/ CrossCheckWith(c, ConcurrentRuns)

SpecConcurrent == Init /\ [][NextConcurrent]_vars

----------------------------------------------------------------------------
(* The shapes of a result, and what is known of an invocation at its end *)

Returned(c) == pc[c] = "returned"

\* fetch has ended: it returned a result or an exception left it.
Left(c) == pc[c] \in {"returned", "raised"}

FailureShape(r) == "fetchError" \in DOMAIN r /\ "fetched" \notin DOMAIN r

SuccessShape(r) ==
    /\ "fetched" \in DOMAIN r
    /\ "fetchedDetails" \in DOMAIN r
    /\ "fetchError" \notin DOMAIN r

\* The parameters name no resource, or a resource with no host.
NoHost(params) ==
    \/ "resource" \notin DOMAIN params
    \/ urlparse(params["resource"]).hostname = None

\* Connect succeeded in this invocation.
Connected(c) == handshake[c] # None /\ handshake[c].phase = "connected"

\* A whole response was read from the connection in this invocation.
GotResponse(c) == reply[c] # None /\ reply[c].kind = "response"

\* The body is not a text of the structured-data grammar.
Malformed(body) ==
    \/ decode(body).t = "raise"
    \/ ~json_loads(decode(body).v).ok

----------------------------------------------------------------------------
(* Claims *)

\* C1: a fetch whose parameters have no resource, or a resource with no
\* host, returns a failure envelope with null certificate fields, and no
\* connection is attempted.
C1_NoHostReturnsFailureEnvelope ==
    \A c \in Calls :
        (Left(c) /\ NoHost(parameters[c])) =>
            /\ Returned(c)
            /\ FailureShape(result[c])
            /\ result[c]["peerCertificateDER"] = None
            /\ result[c]["peerCertificateLength"] = None
            /\ handshake[c] = None

\* C2: every result fetch returns after Connect succeeded, success or
\* later failure, has non-null peerCertificateDER and
\* peerCertificateLength.
C2_CertificateInEveryResultAfterConnect ==
    \A c \in Calls :
        (Returned(c) /\ Connected(c)) =>
            /\ result[c]["peerCertificateDER"] # None
            /\ result[c]["peerCertificateLength"] # None

\* C2 witness: a later-stage failure (a parse error) returned after a
\* successful Connect, carrying the certificate.
C2_Witness ==
    \E c \in Calls :
        /\ Returned(c) /\ Connected(c)
        /\ FailureShape(result[c])
        /\ result[c]["fetchError"]["status"] = PyInt(2)
        /\ result[c]["peerCertificateDER"] = PyStr(<< "M", "I", "I", "=" >>)
        /\ result[c]["peerCertificateLength"] = PyInt(2)

\* C3: for every response with status >= 400, whatever its body, fetch
\* returns a failure shape whose fetchError.status is the response status
\* and whose fetchedRaw is exactly the body read, and the body is not
\* parsed.
C3_ErrorStatusIsFailureWithRawBody ==
    \A c \in Calls :
        (Left(c) /\ GotResponse(c) /\ reply[c].status >= 400) =>
            /\ Returned(c)
            /\ FailureShape(result[c])
            /\ result[c]["fetchError"]["status"] = PyInt(reply[c].status)
            /\ result[c]["fetchedRaw"] # None
            /\ encode(result[c]["fetchedRaw"].v) = reply[c].body
            /\ fetchedObject[c] = None

\* What the code does keep of C3: when the body is UTF-8 text, a status
\* >= 400 gives the failure shape with that status and the body as read,
\* and the body is not parsed.
DecodedErrorStatusIsFailure ==
    \A c \in Calls :
        (Left(c) /\ GotResponse(c) /\ reply[c].status >= 400
            /\ decode(reply[c].body).t = "str") =>
            /\ Returned(c)
            /\ FailureShape(result[c])
            /\ result[c]["fetchError"]["status"] = PyInt(reply[c].status)
            /\ result[c]["fetchedRaw"] # None
            /\ encode(result[c]["fetchedRaw"].v) = reply[c].body
            /\ fetchedObject[c] = None

\* C4: for every response with status < 400 and an empty body, the result
\* has fetched == null and no parse error.
C4_EmptyBodyFetchedNull ==
    \A c \in Calls :
        (Returned(c) /\ GotResponse(c) /\ reply[c].status < 400
            /\ reply[c].body = << >>) =>
            /\ "fetchError" \notin DOMAIN result[c]
            /\ "fetched" \in DOMAIN result[c]
            /\ result[c]["fetched"] = None

\* C5: whenever the status is < 400 and the body parses without error,
\* fetch returns the success shape: fetched is the parsed value,
\* fetchedDetails the status, reason and headers, fetchedRaw the raw body,
\* the certificate fields are populated and there is no fetchError.
C5_ParsedBodyReturnsSuccessShape ==
    \A c \in Calls :
        (Returned(c) /\ GotResponse(c) /\ reply[c].status < 400
            /\ ~Malformed(reply[c].body)) =>
            /\ SuccessShape(result[c])
            /\ result[c]["fetched"] = _parse_JSON(decode(reply[c].body)).object
            /\ result[c]["fetchedDetails"] =
                  [status |-> PyInt(reply[c].status),
                   statusText |-> reply[c].reason,
                   headers |-> reply[c].headers]
            /\ result[c]["fetchedRaw"] = decode(reply[c].body)
            /\ result[c]["peerCertificateDER"] # None
            /\ result[c]["peerCertificateLength"] # None

\* C6: for every response with status < 400 and a non-empty malformed
\* body, fetch returns a failure shape whose fetchError carries the
\* parser's line and column, with the certificate fields and fetchedRaw
\* populated.
C6_MalformedBodyReturnsParseError ==
    \A c \in Calls :
        (Left(c) /\ GotResponse(c) /\ reply[c].status < 400
            /\ reply[c].body # << >> /\ Malformed(reply[c].body)) =>
            /\ Returned(c)
            /\ FailureShape(result[c])
            /\ {"lineno", "colno"} \subseteq
                  DOMAIN result[c]["fetchError"]["headers"]
            /\ result[c]["peerCertificateDER"] # None
            /\ result[c]["peerCertificateLength"] # None
            /\ result[c]["fetchedRaw"] # None

\* What the code does keep of C6: when the body is UTF-8 text that is not
\* well-formed, the parse error is returned with the parser's message,
\* line and column, the certificate and the raw body.
DecodedMalformedBodyIsParseError ==
    \A c \in Calls :
        (Left(c) /\ GotResponse(c) /\ reply[c].status < 400
            /\ reply[c].body # << >> /\ Malformed(reply[c].body)
            /\ decode(reply[c].body).t = "str") =>
            /\ Returned(c)
            /\ FailureShape(result[c])
            /\ result[c]["fetchError"]["status"] = PyInt(2)
            /\ LET text == decode(reply[c].body).v
                   error == json_loads(text)
               IN  result[c]["fetchError"]["headers"] =
                      [msg |-> error.msg,
                       lineno |-> PyInt(lineno(text, error.pos)),
                       colno |-> PyInt(colno(text, error.pos))]
            /\ result[c]["peerCertificateDER"] # None
            /\ result[c]["peerCertificateLength"] # None
            /\ result[c]["fetchedRaw"] = decode(reply[c].body)

\* C7: when sending the request or reading the response fails after a
\* successful Connect, fetch still returns a failure envelope with the
\* certificate fields populated; the failure is not raised past fetch.
C7_TransportFailureReturnsEnvelope ==
    \A c \in Calls :
        (Left(c) /\ reply[c] # None /\ reply[c].kind # "response") =>
            /\ Returned(c)
            /\ FailureShape(result[c])
            /\ result[c]["peerCertificateDER"] # None
            /\ result[c]["peerCertificateLength"] # None

\* C8: on every exit path of fetch from SendRequest onward, the connection
\* opened by Connect is closed by the time fetch returns or leaves.
C8_ConnectionClosedOnEveryExit ==
    \A c \in Calls :
        (Left(c) /\ reply[c] # None) => connection[c].sock = "closed"

\* C9: when Connect fails in either phase, fetch returns a failure
\* envelope whose certificate fields and fetchedRaw are null and whose
\* fetchError text names the phase that failed and the host and port
\* attempted; no certificate is read and no request is sent.
C9_ConnectFailureEnvelope ==
    \A c \in Calls :
        (Left(c) /\ handshake[c] # None /\ ~Connected(c)) =>
            /\ Returned(c)
            /\ FailureShape(result[c])
            /\ result[c]["peerCertificateDER"] = None
            /\ result[c]["peerCertificateLength"] = None
            /\ result[c]["fetchedRaw"] = None
            /\ LET text == result[c]["fetchError"]["statusText"]
                   target == urlparse(parameters[c]["resource"])
               IN  /\ text[2] = target.hostname.v
                   /\ text[4] = IF target.porttext = None THEN 443
                                ELSE url_port(target).v
                   /\ (text[5] = ",) ") <=> (handshake[c].phase = "construct")
                   /\ (text[5] = ",).connect() ")
                         <=> (handshake[c].phase = "connect")
                   /\ text[6] = handshake[c].error
            /\ peerCertEncoded[c] = None
            /\ connection[c] = None
            /\ reply[c] = None

\* C9 witness: a failed handshake to port 8443 of host h has been reported.
C9_Witness ==
    \E c \in Calls :
        /\ Returned(c)
        /\ handshake[c] # None /\ handshake[c].phase = "connect"
        /\ result[c]["fetchError"]["status"] = PyInt(1)
        /\ result[c]["fetchError"]["statusText"] =
              << "HTTPSConnection(", "h", ",", 8443, ",).connect() ",
                 "SSLCertVerificationError" >>

\* C10: the openssl cross-check never gates the result: for every outcome
\* of the cross-check fetch returns the envelope it returns when the
\* cross-check succeeds, and no failure of the cross-check leaves fetch.
C10_CrossCheckNeverGatesResult ==
    \A c \in Calls :
        (Left(c) /\ thumbprint[c] # None) =>
            /\ Returned(c)
            /\ result[c] = return_(c, None, fetchedObject[c], details[c])

\* The number of times a stage was entered, and the places where it was.
Entered(c, stage) == { i \in DOMAIN stages[c] : stages[c][i] = stage }

\* C11: in every fetch call that connects, the peer certificate is captured
\* exactly once, directly after the handshake completed and before any
\* request bytes are written to the connection; a call that does not
\* connect captures none.
C11_CertificateCapturedOnceBeforeRequest ==
    \A c \in Calls :
        /\ Cardinality(Entered(c, "CaptureCertificate")) <= 1
        /\ \A i \in Entered(c, "CaptureCertificate") :
              /\ i > 1 /\ stages[c][i - 1] = "Connect"
              /\ Connected(c)
        /\ \A i \in Entered(c, "SendRequest") :
              \E j \in Entered(c, "CaptureCertificate") : j < i
        /\ (Connected(c) /\ pc[c] # "CaptureCertificate") =>
              /\ Cardinality(Entered(c, "CaptureCertificate")) = 1
              /\ peerCertEncoded[c] = PyStr(b64encode(connection[c].peercert))
              /\ peerCertLength[c] = PyInt(Len(handshake[c].peercert))
        /\ (connection[c] # None /\ connection[c].sent # None) =>
              peerCertEncoded[c] # None

\* C11 witness: the request could not be written, after the certificate of
\* the connection was captured.
C11_Witness ==
    \E c \in Calls :
        /\ pc[c] = "raised"
        /\ reply[c] # None /\ reply[c].kind = "send_failed"
        /\ connection[c].sent # None
        /\ stages[c] = << "ParseTarget", "Connect", "CaptureCertificate",
                          "SendRequest" >>
        /\ peerCertEncoded[c] = PyStr(<< "M", "I", "I", "=" >>)

\* The stages of the pipeline, in their order.
StageOrder ==
    << "ParseTarget", "Connect", "CaptureCertificate", "SendRequest",
       "ClassifyStatus", "ParseBody", "Done" >>

\* The stages of the pipeline an invocation entered: the openssl
\* cross-check, which runs between ParseBody and Done, is left out.
Pipeline(c) == SelectSeq(stages[c], LAMBDA stage : stage # "CrossCheck")

\* The invocation ended in a failure: a failure shape was returned, or an
\* exception left fetch.
Failed(c) ==
    \/ pc[c] = "raised"
    \/ pc[c] = "returned" /\ FailureShape(result[c])

\* C12: within one fetch call the stages are entered in the fixed order
\* ParseTarget, Connect, CaptureCertificate, SendRequest, ClassifyStatus,
\* ParseBody, Done, each at most once (the stages entered are a prefix of
\* that order); a call that ended before Done ended in a failure, and once
\* a call has ended no stage is entered and its one outcome (a result or
\* an exception, not both) stays as it is until the handler is called
\* anew.
C12_StagesInOrderFailureTerminal ==
    /\ [](\A c \in Calls :
            /\ Len(Pipeline(c)) <= Len(StageOrder)
            /\ \A i \in DOMAIN Pipeline(c) : Pipeline(c)[i] = StageOrder[i]
            /\ (Left(c) /\ Entered(c, "Done") = {}) => Failed(c)
            /\ Entered(c, "Done") # {} => Returned(c)
            /\ Left(c) => (result[c] = None) # (raised[c] = None)
            /\ ~ Left(c) => (result[c] = None /\ raised[c] = None))
    /\ [][\A c \in Calls :
            Left(c) =>
                \/ /\ stages'[c] = stages[c]
                   /\ result'[c] = result[c]
                   /\ raised'[c] = raised[c]
                \/ /\ stages'[c] = << >>
                   /\ result'[c] = None
                   /\ raised'[c] = None]_vars

\* C12 witness: a call failed in ClassifyStatus, the fifth stage, and
\* returned the failure.
C12_Witness ==
    \E c \in Calls :
        /\ Returned(c) /\ Failed(c)
        /\ stages[c] = << "ParseTarget", "Connect", "CaptureCertificate",
                          "SendRequest", "ClassifyStatus" >>
        /\ result[c]["fetchError"]["status"] = PyInt(404)

\* The options of the invocation.
OptionsOf(c) ==
    IF "options" \in DOMAIN parameters[c] THEN parameters[c]["options"]
    ELSE EmptyDict

\* The invocation wrote a request to its connection.
Sent(c) == connection[c] # None /\ connection[c].sent # None

\* The options have a body, raw or structured.
HasBody(options) ==
    "body" \in DOMAIN options \/ "bodyObject" \in DOMAIN options

\* The method and the body of the request are those of the options.
MethodAndBodyOfOptions(sent, options) ==
    /\ sent.method = IF "method" \in DOMAIN options THEN options["method"]
                     ELSE "GET"
    /\ "body" \in DOMAIN options =>
          sent.body = [t |-> "bytes", v |-> encode(options["body"].v)]
    /\ ("body" \notin DOMAIN options /\ "bodyObject" \in DOMAIN options) =>
          sent.body = [t |-> "bytes",
                       v |-> encode(json_dumps(options["bodyObject"]))]
    /\ ~ HasBody(options) => sent.body = None

\* C13: for every options value, the request carries a Content-Type header
\* if and only if options has 'body' or 'bodyObject'; the body sent is the
\* bytes of 'body' when present, otherwise the serialization of
\* 'bodyObject' when present, otherwise none; the method is options.method,
\* or GET when none is given.
C13_ContentTypeIffBody ==
    \A c \in Calls :
        Sent(c) =>
            /\ (\E i \in DOMAIN connection[c].sent.headers :
                    connection[c].sent.headers[i][1] = "Content-Type")
                 <=> HasBody(OptionsOf(c))
            /\ MethodAndBodyOfOptions(connection[c].sent, OptionsOf(c))

\* C13, amended: the headers of the request are Content-Type:
\* application/json, written if and only if options has 'body' or
\* 'bodyObject', followed by the caller's own headers as given (which may
\* name Content-Type too); the body and the method are as in C13.
C13_OwnContentTypeIffBody ==
    \A c \in Calls :
        Sent(c) =>
            /\ connection[c].sent.headers =
                  (IF HasBody(OptionsOf(c))
                   THEN << << "Content-Type", "application/json" >> >>
                   ELSE << >>)
                  \o (IF "headers" \in DOMAIN OptionsOf(c)
                      THEN DictItems(OptionsOf(c)["headers"]) ELSE << >>)
            /\ MethodAndBodyOfOptions(connection[c].sent, OptionsOf(c))

\* C13 witness: POST with bodyObject [1] sent the bytes of "[1]" with the
\* Content-Type header.
C13_Witness ==
    \E c \in Calls :
        /\ Sent(c)
        /\ OptionsOf(c) = [method |-> "POST",
                           bodyObject |-> PyList(<< PyInt(1) >>)]
        /\ connection[c].sent.method = "POST"
        /\ connection[c].sent.headers =
              << << "Content-Type", "application/json" >> >>
        /\ connection[c].sent.body = [t |-> "bytes", v |-> << 91, 49, 93 >>]

\* The construction of the Fetcher has ended.
Constructed == ctor = "constructed"

\* A run of the export tool failed: it exited with a non-zero return code
\* or wrote nothing to its standard output.
ExportFailed(run) ==
    run.installed /\ (run.returncode # 0 \/ run.stdout = << >>)

\* A run of the export tool exported no whole certificate.
ExportedNone(run) == PEMBlocks(run.stdout, FALSE, 0) < 1

\* C14: when the export of a credential store fails (non-zero exit or no
\* output), acquisition fails there, with an error, instead of going on to
\* the next store or completing with a partial or empty bundle.
C14_ExportFailureFailsAcquisition ==
    \A i \in DOMAIN securityRuns :
        ExportFailed(securityRuns[i]) =>
            /\ ctor = "raised"
            /\ Len(securityRuns) = i

\* C15: after every successful construction of the Fetcher the bundle holds
\* at least one certificate, all of them whole and loaded into the TLS
\* context; when the credential stores export no certificate at all, the
\* construction fails with an error instead of yielding an empty bundle.
C15_BundleNonEmptyOrConstructionFails ==
    /\ Constructed =>
          /\ PEMBlocks(pemFile, FALSE, 0) >= 1
          /\ certificates.v >= 1
          /\ _sslContext.cacerts = PEMBlocks(pemFile, FALSE, 0)
          /\ \E i \in DOMAIN securityRuns : ~ ExportedNone(securityRuns[i])
    /\ (/\ Len(securityRuns) = Len(_keychains)
        /\ \A i \in DOMAIN securityRuns :
              securityRuns[i].installed /\ ExportedNone(securityRuns[i])
        /\ ctor \notin {"certificates", "_pemPath", "_sslContext",
                        "load_verify_locations"}) =>
          /\ ctor = "raised"
          /\ ctorRaised = Raise("SSLError")

\* C15 witness: both exports ended with no output, and the construction of
\* the Fetcher failed on the empty file.
C15_Witness ==
    /\ ctor = "raised"
    /\ Len(securityRuns) = Len(_keychains)
    /\ \A i \in DOMAIN securityRuns :
          securityRuns[i].installed /\ securityRuns[i].stdout = << >>
    /\ pemFile = << >>
    /\ ctorRaised = Raise("SSLError")

\* C16: the handler runs the pipeline only when the command of the command
\* object is exactly "fetch", with the parameters of the command object
\* unchanged; for every other command it returns None: no stage is
\* entered, nothing is connected to and nothing is raised.
C16_OnlyFetchRunsPipeline ==
    \A c \in Calls :
        pc[c] # "idle" =>
            /\ (pc[c] # "skipped" \/ stages[c] # << >>) =>
                  /\ commandObject[c].command = "fetch"
                  /\ parameters[c] = commandObject[c].parameters
            /\ commandObject[c].command = "fetch" => pc[c] # "skipped"
            /\ commandObject[c].command # "fetch" =>
                  /\ pc[c] = "skipped"
                  /\ stages[c] = << >>
                  /\ result[c] = None /\ raised[c] = None
                  /\ handshake[c] = None /\ connection[c] = None

\* C16 witness: the command "FETCH", with a resource that could be
\* fetched, was answered with None.
C16_Witness ==
    \E c \in Calls :
        /\ pc[c] = "skipped"
        /\ commandObject[c] = [command |-> "FETCH",
                               parameters |-> [resource |-> "https://h/p"]]
        /\ stages[c] = << >>
        /\ result[c] = None

\* C17: no step of a fetch call, whichever way the call ends, changes the
\* Fetcher's _pemPath or _sslContext, nor the file of the trust bundle:
\* they stay as the construction of the Fetcher left them.
C17_FetchLeavesTrustAndContextUnchanged ==
    [][/\ _pemPath' = _pemPath
       /\ _sslContext' = _sslContext
       /\ pemFile' = pemFile]_vars

\* C17 witness: a call went through the connection and the openssl
\* cross-check, both of which read the fields, and returned; the fields
\* are those of the construction.
C17_Witness ==
    \E c \in Calls :
        /\ Returned(c)
        /\ connection[c] # None /\ connection[c].context = _sslContext
        /\ thumbprint[c] # None /\ thumbprint[c].CAfile = _pemPath
        /\ _pemPath = pemPath
        /\ _sslContext = [t |-> "SSLContext",
                          protocol |-> "PROTOCOL_TLS_CLIENT",
                          cacerts |-> 3]

\* C18: when fetch calls on one Fetcher run interleaved, each call that
\* connects holds a connection of its own, to the host and port of its own
\* resource, and no connection is held by two calls; the certificate
\* fields, fetchedRaw and the outcome of each call's result are those of
\* its own handshake and its own response.
C18_OwnConnectionOwnResult ==
    /\ \A c, d \in Calls :
          (c # d /\ connection[c] # None /\ connection[d] # None) =>
              connection[c].id # connection[d].id
    /\ \A c \in Calls :
          connection[c] # None =>
              /\ Connected(c)
              /\ connection[c].peercert = handshake[c].peercert
              /\ connection[c].host = url[c].hostname
              /\ connection[c].port = port[c]
              /\ url[c] = urlparse(parameters[c]["resource"])
    /\ \A c \in Calls :
          Returned(c) =>
              /\ result[c]["peerCertificateDER"] =
                    IF Connected(c)
                    THEN PyStr(b64encode(handshake[c].peercert)) ELSE None
              /\ result[c]["peerCertificateLength"] =
                    IF Connected(c)
                    THEN PyInt(Len(handshake[c].peercert)) ELSE None
              /\ result[c]["fetchedRaw"] =
                    IF GotResponse(c) THEN decode(reply[c].body) ELSE None
              /\ GotResponse(c) =>
                    IF reply[c].status >= 400
                    THEN /\ FailureShape(result[c])
                         /\ result[c]["fetchError"]["status"]
                               = PyInt(reply[c].status)
                    ELSE /\ SuccessShape(result[c])
                         /\ result[c]["fetched"]
                               = _parse_JSON(decode(reply[c].body)).object
                         /\ result[c]["fetchedDetails"]["status"]
                               = PyInt(reply[c].status)

\* C18 witness: while one call has returned the body of its response with
\* the certificate of its peer, another holds an open connection to the
\* same host and port whose peer presented another certificate.
C18_Witness ==
    \E c, d \in Calls :
        /\ c # d
        /\ Returned(c) /\ SuccessShape(result[c])
        /\ result[c]["peerCertificateLength"] = PyInt(1)
        /\ pc[d] = "ClassifyStatus"
        /\ connection[d].host = connection[c].host
        /\ connection[d].port = connection[c].port
        /\ connection[d].id # connection[c].id
        /\ peerCertLength[d] = PyInt(2)
        /\ reply[d].status = 404

\* The invocation fetches a resource that names a host under a scheme that
\* is not the secure one.
NonSecure(c) ==
    /\ pc[c] \notin {"idle", "skipped"}
    /\ "resource" \in DOMAIN parameters[c]
    /\ urlparse(parameters[c]["resource"]).hostname # None
    /\ urlparse(parameters[c]["resource"]).scheme # "https"

\* C19: a resource whose scheme is not the secure scheme is unsupported:
\* ParseTarget fails with a failure envelope and no connection is
\* attempted; port 443 is the default of secure-scheme resources only.
C19_NonSecureSchemeUnsupported ==
    \A c \in Calls :
        NonSecure(c) =>
            /\ pc[c] \in {"ParseTarget", "returned"}
            /\ port[c] = None
            /\ handshake[c] = None
            /\ Returned(c) =>
                  /\ FailureShape(result[c])
                  /\ result[c]["fetchError"]["status"] = PyInt(0)

\* C20: every result fetch returns has the keys peerCertificateDER,
\* peerCertificateLength and fetchedRaw, and exactly one of 'fetchError'
\* and 'fetched'; 'fetchedDetails' is there if and only if 'fetched' is,
\* and there is no other key.
C20_ResultKeys ==
    \A c \in Calls :
        Returned(c) =>
            LET keys == DOMAIN result[c]
            IN  /\ {"peerCertificateDER", "peerCertificateLength",
                    "fetchedRaw"} \subseteq keys
                /\ ("fetchError" \in keys) # ("fetched" \in keys)
                /\ ("fetchedDetails" \in keys) <=> ("fetched" \in keys)
                /\ keys \subseteq {"peerCertificateDER",
                                   "peerCertificateLength", "fetchedRaw",
                                   "fetchError", "fetched", "fetchedDetails"}

\* C20 witness: a parse failure was returned, under the three keys and
\* 'fetchError' alone.
C20_Witness ==
    \E c \in Calls :
        /\ Returned(c)
        /\ DOMAIN result[c] = {"peerCertificateDER", "peerCertificateLength",
                               "fetchedRaw", "fetchError"}
        /\ result[c]["fetchError"]["status"] = PyInt(2)
        /\ result[c]["fetchedRaw"] # None

\* C21: in every failure envelope fetch returns, fetchError.status names
\* the stage that failed: 0 for ParseTarget, 1 for Connect, 2 for
\* ParseBody, and otherwise the status of the response, which is then 400
\* or more; no failure envelope has a status from 3 to 399.
C21_FailureStatusNamesStage ==
    \A c \in Calls :
        (Returned(c) /\ FailureShape(result[c])) =>
            LET status == result[c]["fetchError"]["status"]
                stage == stages[c][Len(stages[c])]
            IN  /\ stage \in {"ParseTarget", "Connect", "ClassifyStatus",
                              "ParseBody"}
                /\ stage = "ParseTarget" => status = PyInt(0)
                /\ stage = "Connect" => status = PyInt(1)
                /\ stage = "ParseBody" => status = PyInt(2)
                /\ stage = "ClassifyStatus" =>
                      /\ status = PyInt(reply[c].status)
                      /\ status.v >= 400
                /\ status.v \notin 3 .. 399

=============================================================================
